---- MODULE Spec2Model ----
(***************************************************************************)
(* A model of the rpkirtr cache server: the ROA diff engine (common.go),   *)
(* the cache store and refresh loop (server.go) and the per-client session *)
(* handler (clients.go), with the PDUs it writes (pdu.go).                 *)
(***************************************************************************)
EXTENDS Integers, Sequences, FiniteSets, TLC

VARIABLES
    \* --- CacheServer (server.go:41-51) ---
    roas,        \* s.roas: the current ROA list
    serial,      \* s.serial (uint32)
    session,     \* s.session (uint16)
    diff,        \* s.diff: the retained serialDiff
    updates,     \* s.updates: lastCheck / lastError / lastUpdate
    clientsArr,  \* backing array of s.clients (slots past the length keep stale entries)
    clientsLen,  \* len(s.clients)
    mutex,       \* s.mutex: [writer |-> task or NoTask, readers |-> set of tasks]
    \* --- tasks ---
    upd,         \* the updateROAs goroutine: position and locals
    fetch,       \* the fetchAndDecodeJSON goroutines of the running readROAs, per URL
    ch,          \* the result channel of the running readROAs
    stat,        \* the status goroutine: position
    cl,          \* per connection: the handleClient goroutine's position and locals
    wire,        \* per connection: the PDUs written to the socket since its last query
    crashed,     \* the process died of an unrecovered panic
    \* --- observation (not program state) ---
    now,         \* logical clock read by time.Now()
    hist,        \* the cache revisions so far: serial, ROA set, chronological
    obs,         \* per connection: what the cache held when the current reply read it
    \* --- pure-function harness ---
    dNew, dOld, dSerial, dOut,   \* makeDiff: arguments and result
    hIn, hOut                    \* the PDU and ROA functions: argument and result

vars == <<roas, serial, session, diff, updates, clientsArr, clientsLen, mutex,
          upd, fetch, ch, stat, cl, wire, crashed, now, hist, obs,
          dNew, dOld, dSerial, dOut, hIn, hOut>>

serverVars == <<roas, serial, session, diff, updates, clientsArr, clientsLen, mutex,
                upd, fetch, ch, stat, cl, wire, crashed, now, hist, obs>>

diffVars == <<dNew, dOld, dSerial, dOut, hIn, hOut>>

-----------------------------------------------------------------------------
(* Bounds of the model.                                                    *)

\* Refresh periods the refresh loop runs through.
MaxRefresh == 2
\* Queries one connection sends before it hangs up.
MaxQueries == 1
\* Longest ROA list handed to makeDiff by the pure-function harness.
MaxLen == 2
\* Longest raw ROA list handed to GetSetOfValidatedROAs.
MaxRaw == 3
\* Longest ASN text handed to asnToUint32.
MaxAsnText == 4
\* Largest version byte and type byte handed to decodePDUHeader.
MaxVersionByte == 3
MaxTypeByte == 12
\* Largest small value of a header's length field, and most bytes a stream
\* holds before it ends, handed to getPDU.
MaxLengthField == 12
MaxStream == 12
\* Most PDUs in a byte stream handed to successive getPDU calls.
MaxPdus == 2
\* Longest text of an Error Report handed to serialize.
MaxText == 2

None == "none"

-----------------------------------------------------------------------------
(* uint32 values.  A uint32 is kept as its two 16-bit halves so that the   *)
(* full width is modelled: U32(65535, 65535) is 2^32-1.                    *)

U32(h, l) == [hi |-> h, lo |-> l]

\* x + 1 in uint32 arithmetic (server.go:302 s.serial++, common.go:58 serial + 1)
Inc32(x) ==
    IF x.lo = 65535
    THEN [hi |-> (x.hi + 1) % 65536, lo |-> 0]
    ELSE [hi |-> x.hi, lo |-> x.lo + 1]

\* x - 1 in uint32 arithmetic (clients.go:176 serial-1)
Dec32(x) ==
    IF x.lo = 0
    THEN [hi |-> (x.hi + 65535) % 65536, lo |-> 65535]
    ELSE [hi |-> x.hi, lo |-> x.lo - 1]

-----------------------------------------------------------------------------
(* ROAs.                                                                   *)

\* The roa struct: the prefix (address and prefix length), MaxMask and ASN.
Roa(a, b, m, n) == [addr |-> a, bits |-> b, maxMask |-> m, asn |-> n]

V4Addrs == {"10.0.0.0"}
V6Addrs == {"2000::"}

\* Two IPv6 ROAs of the same prefix and one IPv4 ROA, all valid.
RoaA == Roa("2000::", 3, 11, 25)
RoaB == Roa("2000::", 3, 112, 5)
RoaC == Roa("10.0.0.0", 8, 24, 7)

RoaUniverse == {RoaA, RoaB, RoaC}

IsV4(r) == r.addr \in V4Addrs

\* An isValid without the IPv4 limit: every family may go up to 128.
isValidNoFamilyLimit(r) ==
    IF r.maxMask = 0 THEN FALSE
    ELSE IF r.maxMask < r.bits THEN FALSE
    ELSE IF r.maxMask > 128 THEN FALSE
    ELSE TRUE

\* roa.isValid: the three checks in the order the code makes them.
isValid(r) ==
    IF r.maxMask = 0 THEN FALSE
    ELSE IF r.maxMask < r.bits THEN FALSE
    ELSE IF IsV4(r) /\ r.maxMask > 32 THEN FALSE
    ELSE IF r.maxMask > 128 THEN FALSE
    ELSE TRUE

Range(s) == {s[i] : i \in DOMAIN s}

\* A GetSetOfValidatedROAs that does not remember the ROAs it has seen.
RECURSIVE GetSetOfValidatedROAsUnseen(_)
GetSetOfValidatedROAsUnseen(l) ==
    IF l = <<>> THEN <<>>
    ELSE LET u == GetSetOfValidatedROAsUnseen(SubSeq(l, 1, Len(l) - 1))
         IN  IF isValid(l[Len(l)]) THEN Append(u, l[Len(l)]) ELSE u

\* GetSetOfValidatedROAs: the first occurrence of every valid ROA, in input order.
RECURSIVE GetSetOfValidatedROAs(_)
GetSetOfValidatedROAs(l) ==
    IF l = <<>> THEN <<>>
    ELSE LET front == SubSeq(l, 1, Len(l) - 1)
             r     == l[Len(l)]
             u     == GetSetOfValidatedROAs(front)
         IN  IF r \notin Range(front) /\ isValid(r) THEN Append(u, r) ELSE u

DigitChars == <<"0", "1", "2", "3", "4", "5", "6", "7", "8", "9">>

\* The decimal digits fmt's %d prints for a non-negative integer.
RECURSIVE FormatD(_)
FormatD(n) ==
    IF n < 10 THEN <<DigitChars[n + 1]>>
    ELSE FormatD(n \div 10) \o <<DigitChars[(n % 10) + 1]>>

\* fmt.Sprintf("%s%d%d", roa.Prefix.IPNet().String(), roa.MaxMask, roa.ASN):
\* the prefix prints as address "/" length, and the three parts are joined
\* with nothing between them.
RoaKey(r) == <<r.addr, "/">> \o FormatD(r.bits) \o FormatD(r.maxMask) \o FormatD(r.asn)

\* roasToMap: the formatted key of every ROA mapped to the ROA; a later ROA
\* of the list replaces an earlier one that has the same key.
roasToMap(l) ==
    [k \in {RoaKey(l[i]) : i \in DOMAIN l} |->
        l[CHOOSE i \in DOMAIN l :
            /\ RoaKey(l[i]) = k
            /\ \A j \in DOMAIN l : RoaKey(l[j]) = k => j <= i]]

\* All orders in which a range over a Go map can visit the values of S.
Orders(S) ==
    {s \in [1..Cardinality(S) -> S] : \A i, j \in 1..Cardinality(S) : s[i] = s[j] => i = j}

\* A makeDiff that reports a change whatever it found.
makeDiffAlwaysChanged(new, old, s) ==
    LET newm == roasToMap(new)
        oldm == roasToMap(old)
        adds == {newm[k] : k \in (DOMAIN newm) \ (DOMAIN oldm)}
        dels == {oldm[k] : k \in (DOMAIN oldm) \ (DOMAIN newm)}
    IN  {[oldSerial |-> s,
          newSerial |-> Inc32(s),
          addRoa    |-> a,
          delRoa    |-> d,
          diff      |-> TRUE] : a \in Orders(adds), d \in Orders(dels)}

\* makeDiff: every serialDiff the call can return (the order of addRoa and
\* delRoa is the iteration order of the maps, which Go leaves open).
makeDiff(new, old, s) ==
    LET newm == roasToMap(new)
        oldm == roasToMap(old)
        adds == {newm[k] : k \in (DOMAIN newm) \ (DOMAIN oldm)}
        dels == {oldm[k] : k \in (DOMAIN oldm) \ (DOMAIN newm)}
    IN  {[oldSerial |-> s,
          newSerial |-> Inc32(s),
          addRoa    |-> a,
          delRoa    |-> d,
          diff      |-> (Len(a) > 0 \/ Len(d) > 0)] : a \in Orders(adds), d \in Orders(dels)}

-----------------------------------------------------------------------------
(* The pure-function harness: makeDiff applied to bounded inputs.          *)

RoaLists == UNION {[1..n -> RoaUniverse] : n \in 0..MaxLen}

DiffSerials == {U32(0, 0), U32(0, 1), U32(65535, 65535)}

DiffInit ==
    /\ dNew \in RoaLists
    /\ dOld \in RoaLists
    /\ dSerial \in DiffSerials
    /\ dOut = <<>>
    /\ hIn = <<>> /\ hOut = <<>>
    /\ roas = <<>> /\ serial = U32(0, 0) /\ session = 0 /\ diff = None
    /\ updates = None /\ clientsArr = <<>> /\ clientsLen = 0 /\ mutex = None
    /\ upd = None /\ fetch = None /\ ch = <<>> /\ stat = None /\ cl = None
    /\ wire = None /\ crashed = FALSE /\ now = 0 /\ hist = <<>> /\ obs = None

\* s.diff = makeDiff(new, old, serial)
DiffCall ==
    /\ dOut = <<>>
    /\ \E d \in makeDiff(dNew, dOld, dSerial) : dOut' = <<d>>
    /\ UNCHANGED <<dNew, dOld, dSerial, hIn, hOut>>
    /\ UNCHANGED serverVars

DiffNext == DiffCall

SpecDiff == DiffInit /\ [][DiffNext]_vars

-----------------------------------------------------------------------------
(* PDUs as the serialize methods of pdu.go write them.                     *)

serialNotify  == 0
serialQuery   == 1
resetQuery    == 2
cacheResponse == 3
ipv4Prefix    == 4
ipv6Prefix    == 6
endOfData     == 7
cacheReset    == 8
errorReport   == 10

version1 == 1
version2 == 2

minPDULength  == 8
headPDULength == 2

withdraw == 0
announce == 1

\* Timers of the End Of Data PDU that sendRoa writes.
refresh == 3600
retry   == 600
expire  == 7200

serialNotifyPDU(sess, ser) ==
    [version |-> version1, ptype |-> serialNotify, session |-> sess,
     length |-> 12, serial |-> ser]

cacheResponsePDU(sess) ==
    [version |-> version1, ptype |-> cacheResponse, session |-> sess, length |-> 8]

ipv4PrefixPDU(flags, min, max, prefix, asn) ==
    [version |-> version1, ptype |-> ipv4Prefix, zero16 |-> 0, length |-> 20,
     flags |-> flags, min |-> min, max |-> max, zero8 |-> 0,
     prefix |-> prefix, asn |-> asn]

ipv6PrefixPDU(flags, min, max, prefix, asn) ==
    [version |-> version1, ptype |-> ipv6Prefix, zero16 |-> 0, length |-> 32,
     flags |-> flags, min |-> min, max |-> max, zero8 |-> 0,
     prefix |-> prefix, asn |-> asn]

endOfDataPDU(sess, ser, rfr, rty, exp) ==
    [version |-> version1, ptype |-> endOfData, session |-> sess, length |-> 24,
     serial |-> ser, refresh |-> rfr, retry |-> rty, expire |-> exp]

cacheResetPDU ==
    [version |-> version1, ptype |-> cacheReset, zero |-> 0, length |-> 8]

\* A writePrefixPDU that puts the max length where the prefix length
\* belongs and the prefix length where the max length belongs.
writePrefixPDUSwapped(r, flag) ==
    IF IsV4(r)
    THEN ipv4PrefixPDU(flag, r.maxMask, r.bits, r.addr, r.asn)
    ELSE ipv6PrefixPDU(flag, r.maxMask, r.bits, r.addr, r.asn)

\* writePrefixPDU: the prefix PDU of the ROA's family, with the given flag.
writePrefixPDU(r, flag) ==
    IF IsV4(r)
    THEN ipv4PrefixPDU(flag, r.bits, r.maxMask, r.addr, r.asn)
    ELSE ipv6PrefixPDU(flag, r.bits, r.maxMask, r.addr, r.asn)

\* A version check that lets both protocol versions through.
decodePDUHeaderErrEitherVersion(p) == p.version \notin {version1, version2}

\* decodePDUHeader as handleClient calls it (clients.go): TRUE when it
\* returns an error.
decodePDUHeaderErr(p) == p.version # 1

-----------------------------------------------------------------------------
(* The server: state after run() has built the CacheServer.                *)

\* The connections that may be made, one handleClient goroutine each.
Conns == {"c1"}
\* The VRP sources given on the command line.
Urls == {"u1"}

NoTask == "none"
NilClient == "nil"

\* ROA lists the sources may hold.
ListCA == <<RoaC, RoaA>>
ListCB == <<RoaC, RoaB>>
ListA  == <<RoaA>>

\* A decoded JSON record: the ROA, and whether its prefix string parses.
Rec(r, ok) == [roa |-> r, prefixOK |-> ok]
DocOf(l) == [i \in DOMAIN l |-> Rec(l[i], TRUE)]

\* A document whose second record has an unparsable prefix.
BadDoc == <<Rec(RoaC, TRUE), Rec(Roa("", 0, 24, 7), FALSE)>>

\* The documents a source may serve.
Docs == {DocOf(ListCB), DocOf(ListA), BadDoc}

\* Values rand.Intn(100) may return in sendRoa.
RandSessions == {99}
\* Values of s.session drawn at start.
ServerSessions == {4660}

\* The zero serialDiff of a CacheServer that has not refreshed yet.
ZeroDiff ==
    [oldSerial |-> U32(0, 0), newSerial |-> U32(0, 0),
     addRoa |-> <<>>, delRoa |-> <<>>, diff |-> FALSE]

Revision(s, l) == [serial |-> s, roas |-> l]

\* The cache right after run(): serial 0, the first ROA set, no diff yet.
FreshStart ==
    {[roas |-> ListCA, serial |-> U32(0, 0), diff |-> ZeroDiff,
      lastUpdate |-> 0, hist |-> <<Revision(U32(0, 0), ListCA)>>]}

\* The cache after 2^32-1 refreshes, the last of which added RoaA.
LateStart ==
    {[roas |-> ListCA, serial |-> U32(65535, 65535), diff |-> d,
      lastUpdate |-> 1,
      hist |-> <<Revision(U32(65535, 65534), <<RoaC>>),
                 Revision(U32(65535, 65535), ListCA)>>] :
        d \in makeDiff(ListCA, <<RoaC>>, U32(65535, 65534))}

NoPDU == [version |-> 0, ptype |-> 255, session |-> 0, length |-> 0, serial |-> U32(0, 0)]

\* A handleClient goroutine before its connection is accepted.
\* first is the version byte of the first PDU it was sent (0: none yet),
\* exit the return statement it left its loop by ("none": still in it), and
\* stall whether the router has stopped reading from the connection.
IdleClient ==
    [pc |-> "idle", nq |-> 0, pdu |-> NoPDU, serial |-> U32(0, 0), sess |-> 0, i |-> 0,
     first |-> 0, exit |-> "none", stall |-> FALSE]

NoObs == [list |-> <<>>, serial |-> U32(0, 0)]

\* A fetchAndDecodeJSON goroutine that is not running: its position, the
\* newROAs built so far, the records still to convert, whether it has
\* taken an error branch, and how many lists with which ROAs it has sent.
IdleFetch ==
    [pc |-> "idle", list |-> <<>>, doc |-> <<>>, err |-> FALSE, sent |-> 0, gave |-> <<>>]

\* The server as run() leaves it, about to serve the connections conns.
InitWith(conns) ==
    /\ \E st \in FreshStart \cup LateStart :
         /\ roas = st.roas
         /\ serial = st.serial
         /\ diff = st.diff
         /\ updates = [lastCheck |-> 1, lastError |-> 0, lastUpdate |-> st.lastUpdate]
         /\ hist = st.hist
    /\ session \in ServerSessions
    /\ clientsArr = <<>>
    /\ clientsLen = 0
    /\ mutex = [writer |-> NoTask, readers |-> {}]
    /\ upd = [pc |-> "sleep", n |-> 0, ok |-> FALSE,
              arr |-> <<>>, len |-> 0, live |-> FALSE, i |-> 0, reg |-> {}]
    /\ fetch = [u \in Urls |-> IdleFetch]
    /\ ch = <<>>
    /\ stat = "recv"
    /\ cl = [c \in conns |-> IdleClient]
    /\ wire = [c \in conns |-> <<>>]
    /\ crashed = FALSE
    /\ now = 1
    /\ obs = [c \in conns |-> NoObs]
    /\ dNew = <<>> /\ dOld = <<>> /\ dSerial = U32(0, 0) /\ dOut = <<>>
    /\ hIn = <<>> /\ hOut = <<>>

ServerInit == InitWith(Conns)

MutexFree == mutex.writer = NoTask /\ mutex.readers = {}

\* s.clients as a slice: the first clientsLen slots of its backing array.
Clients == SubSeq(clientsArr, 1, clientsLen)

\* The connection is open at the server's end: accepted and not yet closed
\* by the handler's deferred c.conn.Close().
ConnOpen(c) == cl[c].pc \notin {"idle", "remove", "gone"}

\* A PDU written to a connection reaches the wire unless the socket is closed.
Written(w, c, p) == IF ConnOpen(c) THEN [w EXCEPT ![c] = Append(@, p)] ELSE w

\* An append that also puts the new session in the place of the one
\* registered last.
AppendSliceOverLast(arr, n, c) ==
    IF n < Len(arr)
    THEN [arr |-> [k \in 1..Len(arr) |->
                      IF k \in {n, n + 1} THEN c ELSE arr[k]],
          realloc |-> FALSE]
    ELSE LET cap == IF Len(arr) = 0 THEN 1 ELSE 2 * Len(arr)
         IN  [arr |-> [k \in 1..cap |->
                          IF k < n THEN arr[k] ELSE IF k \in {n, n + 1} THEN c ELSE NilClient],
              realloc |-> TRUE]

\* The slice append(arr[:n], c): in place while the capacity allows, into a
\* new array of doubled capacity otherwise.
AppendSlice(arr, n, c) ==
    IF n < Len(arr)
    THEN [arr |-> [arr EXCEPT ![n + 1] = c], realloc |-> FALSE]
    ELSE LET cap == IF Len(arr) = 0 THEN 1 ELSE 2 * Len(arr)
         IN  [arr |-> [k \in 1..cap |->
                          IF k <= n THEN arr[k] ELSE IF k = n + 1 THEN c ELSE NilClient],
              realloc |-> TRUE]

\* The array a running notify loop ranges over, after s.clients changed:
\* it is the same array unless the change moved s.clients to a new one.
RangeAfter(u, newArr, realloc) ==
    IF u.pc = "notify" /\ u.live
    THEN IF realloc THEN [u EXCEPT !.live = FALSE] ELSE [u EXCEPT !.arr = newArr]
    ELSE u

\* accept: under the exclusive lock, build the client and append it to
\* s.clients; start() then runs handleClient in a goroutine of its own.
accept(c) ==
    /\ ~crashed
    /\ cl[c].pc = "idle"
    /\ MutexFree
    /\ LET a == AppendSlice(clientsArr, clientsLen, c)
       IN  /\ clientsArr' = a.arr
           /\ clientsLen' = clientsLen + 1
           /\ upd' = RangeAfter(upd, a.arr, a.realloc)
    /\ cl' = [cl EXCEPT ![c].pc = "read"]
    /\ UNCHANGED <<roas, serial, session, diff, updates, mutex, fetch, ch, stat,
                   wire, crashed, now, hist, obs>>
    /\ UNCHANGED diffVars

\* A remove that cuts the slice off at the client instead of closing the
\* gap: s.clients = s.clients[:i].
removeLoopTruncates(arr, len, c, i, n) ==
    IF \E k \in 1..len : arr[k] = c
    THEN [arr |-> arr, len |-> (CHOOSE k \in 1..len : arr[k] = c) - 1]
    ELSE [arr |-> arr, len |-> len]

\* The loop of remove over the slice it ranged at entry (n slots): every
\* slot equal to c is cut out by append(s.clients[:i], s.clients[i+1:]...),
\* which shifts the tail left inside the same array.
RECURSIVE removeLoop(_, _, _, _, _)
removeLoop(arr, len, c, i, n) ==
    IF i > n THEN [arr |-> arr, len |-> len]
    ELSE IF arr[i] = c /\ i <= len
         THEN removeLoop([k \in DOMAIN arr |->
                             IF k >= i /\ k < len THEN arr[k + 1] ELSE arr[k]],
                         len - 1, c, i + 1, n)
         ELSE removeLoop(arr, len, c, i + 1, n)

\* remove, run by handleClient's deferred call after the socket was closed.
remove(c) ==
    /\ ~crashed
    /\ cl[c].pc = "remove"
    /\ MutexFree
    /\ LET r == removeLoop(clientsArr, clientsLen, c, 1, clientsLen)
       IN  /\ clientsArr' = r.arr
           /\ clientsLen' = r.len
           /\ upd' = RangeAfter(upd, r.arr, FALSE)
    /\ cl' = [cl EXCEPT ![c].pc = "gone"]
    /\ UNCHANGED <<roas, serial, session, diff, updates, mutex, fetch, ch, stat,
                   wire, crashed, now, hist, obs>>
    /\ UNCHANGED diffVars

-----------------------------------------------------------------------------
(* handleClient (clients.go): one goroutine per accepted connection.       *)

\* Offsets below the cache's serial that a router may ask for.
QueryOffsets == {0, 1, 2}

RECURSIVE Back32(_, _)
Back32(x, k) == IF k = 0 THEN x ELSE Back32(Dec32(x), k - 1)

\* The well-framed PDUs a router may send.
Inputs ==
    {[version |-> v, ptype |-> resetQuery, session |-> 0, length |-> 8,
      serial |-> U32(0, 0)] : v \in {version1, version2}}
    \cup
    {[version |-> version1, ptype |-> serialQuery, session |-> session, length |-> 12,
      serial |-> Back32(serial, k)] : k \in QueryOffsets}
    \cup
    {[version |-> version1, ptype |-> t, session |-> 0, length |-> 8,
      serial |-> U32(0, 0)] : t \in {cacheReset}}
    \cup
    {[version |-> version1, ptype |-> serialNotify, session |-> session, length |-> 12,
      serial |-> serial]}
    \cup
    {[version |-> version1, ptype |-> serialQuery, session |-> session,
      length |-> minPDULength, serial |-> U32(0, 0)]}

othersUnchanged ==
    /\ UNCHANGED <<roas, serial, session, diff, updates, clientsArr, clientsLen,
                   upd, fetch, ch, stat, crashed, now, hist>>
    /\ UNCHANGED diffVars

\* getSerialQueryPDU(pdu[2:]) slices pdu[6:10] of what follows the first
\* two bytes.  getPDU returns its 8-byte buffer as it is when the length
\* field is 8 (nothing is appended), so the slice has capacity 6 and the
\* expression panics; nothing in handleClient recovers.
getSerialQueryPDUPanics(p) == p.length - headPDULength < 10

\* A switch with a default case that ends the session.
dispatchClosingDefault(p) ==
    IF decodePDUHeaderErr(p) THEN "remove"
    ELSE IF p.ptype = resetQuery THEN "roaCR"
    ELSE IF p.ptype = serialQuery
         THEN IF getSerialQueryPDUPanics(p) THEN "panic" ELSE "sqRead"
    ELSE "remove"

\* Where the loop of handleClient goes once getPDU has returned p.
dispatch(p) ==
    IF decodePDUHeaderErr(p) THEN "remove"
    ELSE IF p.ptype = resetQuery THEN "roaCR"
    ELSE IF p.ptype = serialQuery
         THEN IF getSerialQueryPDUPanics(p) THEN "panic" ELSE "sqRead"
    ELSE "read"

\* getPDU returns a PDU; the header is decoded and the switch entered.
\* A header error returns, which runs the deferred c.conn.Close().
recvPDU(c) ==
    /\ ~crashed
    /\ cl[c].pc = "read"
    /\ cl[c].nq < MaxQueries
    /\ \E p \in Inputs :
         cl' = [cl EXCEPT ![c].pc = dispatch(p), ![c].pdu = p, ![c].nq = @ + 1,
                          ![c].first = IF @ = 0 THEN p.version ELSE @,
                          ![c].exit = IF decodePDUHeaderErr(p) THEN "decode" ELSE @]
    /\ crashed' = (cl'[c].pc = "panic")
    /\ wire' = [wire EXCEPT ![c] = <<>>]
    /\ obs' = [obs EXCEPT ![c] = NoObs]
    /\ UNCHANGED mutex
    /\ UNCHANGED <<roas, serial, session, diff, updates, clientsArr, clientsLen,
                   upd, fetch, ch, stat, now, hist>>
    /\ UNCHANGED diffVars

\* getPDU fails (the router hung up): return, closing the socket.
recvEOF(c) ==
    /\ ~crashed
    /\ cl[c].pc = "read"
    /\ cl' = [cl EXCEPT ![c].pc = "remove", ![c].exit = "eof"]
    /\ UNCHANGED <<wire, obs, mutex>>
    /\ othersUnchanged

\* sendRoa: the Cache Response, written before the lock is taken.
sendRoaResponse(c) ==
    /\ ~crashed
    /\ cl[c].pc = "roaCR"
    /\ \E r \in RandSessions :
         /\ cl' = [cl EXCEPT ![c].pc = "roaPfx", ![c].sess = r, ![c].i = 1]
         /\ wire' = Written(wire, c, cacheResponsePDU(r))
    /\ UNCHANGED <<obs, mutex>>
    /\ othersUnchanged

\* sendRoa: one turn of the loop over *c.roas.  c.mutex.RLock() goes with
\* the first turn and c.mutex.RUnlock() with the last (with each other when
\* the list is empty).
sendRoaPrefix(c) ==
    /\ ~crashed
    /\ cl[c].pc = "roaPfx"
    /\ IF cl[c].i = 1 THEN mutex.writer = NoTask ELSE c \in mutex.readers
    /\ wire' = IF cl[c].i <= Len(roas)
               THEN Written(wire, c, writePrefixPDU(roas[cl[c].i], announce))
               ELSE wire
    /\ IF cl[c].i < Len(roas)
       THEN /\ mutex' = [mutex EXCEPT !.readers = @ \cup {c}]
            /\ cl' = [cl EXCEPT ![c].i = @ + 1]
       ELSE /\ mutex' = [mutex EXCEPT !.readers = @ \ {c}]
            /\ cl' = [cl EXCEPT ![c].pc = "roaEOD"]
    /\ obs' = [obs EXCEPT ![c].list = roas]
    /\ othersUnchanged

\* sendRoa: the End Of Data, with *c.serial read without the lock.
sendRoaEOD(c) ==
    /\ ~crashed
    /\ cl[c].pc = "roaEOD"
    /\ wire' = Written(wire, c,
                 endOfDataPDU(cl[c].sess, serial, refresh, retry, expire))
    /\ cl' = [cl EXCEPT ![c].pc = "read"]
    /\ obs' = [obs EXCEPT ![c].serial = serial]
    /\ UNCHANGED mutex
    /\ othersUnchanged

\* The first condition of the Serial Query case with "or" for "and": it
\* holds of every query.
isUnmanageableEither(q, s) == q # s \/ q # Dec32(s)

\* The three conditions of the Serial Query case, on the query's serial q
\* and the serial s read from the diff.
isUnmanageable(q, s) == q # s /\ q # Dec32(s)
isCurrent(q, s) == q = s
isPrevious(q, s) == q = Dec32(s)

\* The three ifs of the Serial Query case follow one another; this is where
\* control goes from the k-th of them on.
RECURSIVE nextIf(_, _, _)
nextIf(q, s, k) ==
    CASE k = 1 -> IF isUnmanageable(q, s) THEN "sendReset" ELSE nextIf(q, s, 2)
      [] k = 2 -> IF isCurrent(q, s) THEN "emptyCR" ELSE nextIf(q, s, 3)
      [] k = 3 -> IF isPrevious(q, s) THEN "diffCR" ELSE "read"

\* Serial Query: serial := c.diff.newSerial under the shared lock.
serialQueryRead(c) ==
    /\ ~crashed
    /\ cl[c].pc = "sqRead"
    /\ mutex.writer = NoTask
    /\ cl' = [cl EXCEPT ![c].pc = nextIf(cl[c].pdu.serial, diff.newSerial, 1),
                        ![c].serial = diff.newSerial]
    /\ obs' = [obs EXCEPT ![c].serial = serial]
    /\ UNCHANGED <<wire, mutex>>
    /\ othersUnchanged

\* sendReset
sendReset(c) ==
    /\ ~crashed
    /\ cl[c].pc = "sendReset"
    /\ wire' = Written(wire, c, cacheResetPDU)
    /\ cl' = [cl EXCEPT ![c].pc = nextIf(cl[c].pdu.serial, cl[c].serial, 2)]
    /\ UNCHANGED <<obs, mutex>>
    /\ othersUnchanged

\* sendEmpty: the Cache Response.
sendEmptyResponse(c) ==
    /\ ~crashed
    /\ cl[c].pc = "emptyCR"
    /\ wire' = Written(wire, c, cacheResponsePDU(cl[c].pdu.session))
    /\ cl' = [cl EXCEPT ![c].pc = "emptyEOD"]
    /\ UNCHANGED <<obs, mutex>>
    /\ othersUnchanged

\* sendEmpty: the End Of Data, with *c.serial read without the lock.
sendEmptyEOD(c) ==
    /\ ~crashed
    /\ cl[c].pc = "emptyEOD"
    /\ wire' = Written(wire, c, endOfDataPDU(cl[c].pdu.session, serial, 900, 30, 171999))
    /\ cl' = [cl EXCEPT ![c].pc = nextIf(cl[c].pdu.serial, cl[c].serial, 3)]
    /\ UNCHANGED <<obs, mutex>>
    /\ othersUnchanged

\* The prefix PDUs sendDiff writes: addRoa announced, then delRoa withdrawn,
\* and none at all when diff.diff is false.
diffItems(d) ==
    IF d.diff
    THEN [k \in 1..(Len(d.addRoa) + Len(d.delRoa)) |->
            IF k <= Len(d.addRoa)
            THEN [roa |-> d.addRoa[k], flag |-> announce]
            ELSE [roa |-> d.delRoa[k - Len(d.addRoa)], flag |-> withdraw]]
    ELSE <<>>

\* c.mutex.RLock(), then sendDiff writes the Cache Response.
sendDiffResponse(c) ==
    /\ ~crashed
    /\ cl[c].pc = "diffCR"
    /\ mutex.writer = NoTask
    /\ mutex' = [mutex EXCEPT !.readers = @ \cup {c}]
    /\ wire' = Written(wire, c, cacheResponsePDU(cl[c].pdu.session))
    /\ cl' = [cl EXCEPT ![c].pc = "diffPfx", ![c].i = 1]
    /\ UNCHANGED obs
    /\ othersUnchanged

\* sendDiff: one turn of the loops over diff.addRoa and diff.delRoa.
sendDiffPrefix(c) ==
    /\ ~crashed
    /\ cl[c].pc = "diffPfx"
    /\ cl[c].i <= Len(diffItems(diff))
    /\ LET it == diffItems(diff)[cl[c].i]
       IN  wire' = Written(wire, c, writePrefixPDU(it.roa, it.flag))
    /\ cl' = [cl EXCEPT ![c].i = @ + 1]
    /\ UNCHANGED <<obs, mutex>>
    /\ othersUnchanged

\* sendDiff: the End Of Data with *c.serial; then c.mutex.RUnlock().
sendDiffEOD(c) ==
    /\ ~crashed
    /\ cl[c].pc = "diffPfx"
    /\ cl[c].i > Len(diffItems(diff))
    /\ wire' = Written(wire, c, endOfDataPDU(cl[c].pdu.session, serial, 900, 30, 171999))
    /\ mutex' = [mutex EXCEPT !.readers = @ \ {c}]
    /\ cl' = [cl EXCEPT ![c].pc = "read"]
    /\ UNCHANGED obs
    /\ othersUnchanged

-----------------------------------------------------------------------------
(* readROAs and its fetchAndDecodeJSON goroutines (common.go).             *)

\* The result channel is full: make(chan []roa, len(urls)).
chFull == Len(ch) >= Cardinality(Urls)

fetchUnchanged ==
    /\ UNCHANGED <<roas, serial, session, diff, updates, clientsArr, clientsLen,
                   mutex, upd, stat, cl, wire, now, hist, obs>>
    /\ UNCHANGED diffVars

\* The records from the front of doc whose prefix parses, up to the first
\* that does not.
RECURSIVE goodPrefix(_)
goodPrefix(doc) ==
    IF doc = <<>> \/ ~doc[1].prefixOK THEN <<>>
    ELSE <<doc[1].roa>> \o goodPrefix(Tail(doc))

\* The loop over the records: ROAs are appended until a prefix fails to
\* parse (the goroutine then sends what it has) or the records run out.
parsed(f) ==
    LET good == goodPrefix(f.doc)
        rest == SubSeq(f.doc, Len(good) + 1, Len(f.doc))
    IN  [pc |-> IF rest = <<>> THEN "final" ELSE "pfxSend",
         list |-> f.list \o good, doc |-> rest,
         err |-> (f.err \/ rest # <<>>), sent |-> f.sent, gave |-> f.gave]

\* json.Unmarshal returns the records of a document, or an error and no
\* record; the loop over the records follows in both cases.
unmarshalled(f) ==
    {parsed([f EXCEPT !.doc = d]) : d \in Docs} \cup {[f EXCEPT !.pc = "unmSend", !.err = TRUE]}

\* io.ReadAll returns the body, or an error.
readAll(f) == unmarshalled(f) \cup {[f EXCEPT !.pc = "readSend", !.err = TRUE]}

\* http.Get returns a response, or an error and no response.
httpGet(f) == readAll(f) \cup {[f EXCEPT !.pc = "getSend", !.err = TRUE]}

\* fetchAndDecodeJSON from its start to its first send on the channel.
fetchStart(u) ==
    /\ ~crashed
    /\ fetch[u].pc = "get"
    /\ \E f \in httpGet(fetch[u]) : fetch' = [fetch EXCEPT ![u] = f]
    /\ UNCHANGED <<ch, crashed>>
    /\ fetchUnchanged

\* Where the goroutine is at its next send, after the send of an error
\* branch.  No error branch returns: after a failed http.Get the deferred
\* resp.Body.Close() dereferences the nil response, a failed ReadAll runs on
\* into Unmarshal, a failed Unmarshal into the loop, and a record whose
\* prefix does not parse is appended with the zero prefix.
afterErrorSend(f) ==
    CASE f.pc = "getSend"  -> {[f EXCEPT !.pc = "panic"]}
      [] f.pc = "readSend" -> unmarshalled(f)
      [] f.pc = "unmSend"  -> {parsed(f)}
      [] f.pc = "pfxSend"  ->
           {parsed([f EXCEPT !.list = Append(@, f.doc[1].roa), !.doc = Tail(@)])}

\* A send on the result channel from one of the error branches; it blocks
\* while the channel is full.
fetchSendOnError(u) ==
    /\ ~crashed
    /\ fetch[u].pc \in {"getSend", "readSend", "unmSend", "pfxSend"}
    /\ ~chFull
    /\ LET l == IF fetch[u].pc = "pfxSend" THEN fetch[u].list ELSE <<>>
       IN  /\ ch' = Append(ch, l)
           /\ \E f \in afterErrorSend(fetch[u]) :
                /\ fetch' = [fetch EXCEPT ![u] =
                                [f EXCEPT !.sent = @ + 1, !.gave = @ \o l]]
                /\ crashed' = (f.pc = "panic")
    /\ fetchUnchanged

\* ch <- newROAs at the end, then the deferred wg.Done().
fetchSendFinal(u) ==
    /\ ~crashed
    /\ fetch[u].pc = "final"
    /\ ~chFull
    /\ ch' = Append(ch, fetch[u].list)
    /\ fetch' = [fetch EXCEPT ![u].pc = "done", ![u].sent = @ + 1,
                               ![u].gave = @ \o fetch[u].list]
    /\ UNCHANGED crashed
    /\ fetchUnchanged

RECURSIVE Flatten(_)
Flatten(ss) == IF ss = <<>> THEN <<>> ELSE ss[1] \o Flatten(Tail(ss))

\* readROAs after wg.Wait(): the lists drained from the channel, validated
\* and deduplicated; the error it returns is always nil.
readROAs(chan) == [roas |-> GetSetOfValidatedROAs(Flatten(chan)), err |-> FALSE]

-----------------------------------------------------------------------------
(* updateROAs (server.go): the refresh loop.                               *)

updUnchanged ==
    /\ UNCHANGED <<session, clientsArr, clientsLen, cl, crashed, obs>>
    /\ UNCHANGED diffVars

\* The sleep is over: s.mutex.Lock(), lastCheck, and readROAs starts one
\* goroutine per URL.
updLock ==
    /\ ~crashed
    /\ upd.pc = "sleep"
    /\ upd.n < MaxRefresh
    /\ MutexFree
    /\ mutex' = [mutex EXCEPT !.writer = "upd"]
    /\ now' = now + 1
    /\ updates' = [updates EXCEPT !.lastCheck = now']
    /\ fetch' = [u \in Urls |-> [IdleFetch EXCEPT !.pc = "get"]]
    /\ ch' = <<>>
    /\ upd' = [upd EXCEPT !.pc = "wait", !.n = @ + 1, !.reg = {}]
    /\ UNCHANGED <<roas, serial, diff, stat, wire, hist>>
    /\ updUnchanged

\* A refresh that advances the serial only when the ROA set has changed.
updApplyIfChanged ==
    /\ ~crashed
    /\ upd.pc = "wait"
    /\ \A u \in Urls : fetch[u].pc = "done"
    /\ LET res == readROAs(ch)
       IN  \E d \in makeDiff(res.roas, roas, serial) :
               /\ diff' = d
               /\ updates' = IF d.diff
                             THEN [updates EXCEPT !.lastUpdate = now]
                             ELSE updates
               /\ serial' = IF d.diff THEN Inc32(serial) ELSE serial
               /\ roas' = res.roas
               /\ hist' = Append(hist, Revision(serial', roas'))
               /\ upd' = [upd EXCEPT !.pc = "send", !.ok = TRUE]
    /\ mutex' = [mutex EXCEPT !.writer = NoTask]
    /\ ch' = <<>>
    /\ fetch' = [u \in Urls |-> IdleFetch]
    /\ UNCHANGED <<stat, wire, now>>
    /\ updUnchanged

\* wg.Wait() returns; the result is applied and the lock released.
updApply ==
    /\ ~crashed
    /\ upd.pc = "wait"
    /\ \A u \in Urls : fetch[u].pc = "done"
    /\ LET res == readROAs(ch)
       IN  IF res.err
           THEN /\ updates' = [updates EXCEPT !.lastError = now]
                /\ upd' = [upd EXCEPT !.pc = "send", !.ok = FALSE]
                /\ UNCHANGED <<roas, serial, diff, hist>>
           ELSE /\ \E d \in makeDiff(res.roas, roas, serial) :
                     /\ diff' = d
                     /\ updates' = IF d.diff
                                   THEN [updates EXCEPT !.lastUpdate = now]
                                   ELSE updates
                /\ serial' = Inc32(serial)
                /\ roas' = res.roas
                /\ hist' = Append(hist, Revision(serial', roas'))
                /\ upd' = [upd EXCEPT !.pc = "send", !.ok = TRUE]
    /\ mutex' = [mutex EXCEPT !.writer = NoTask]
    /\ ch' = <<>>
    /\ fetch' = [u \in Urls |-> IdleFetch]
    /\ UNCHANGED <<stat, wire, now>>
    /\ updUnchanged

\* ch <- true, received by status; after a successful refresh the notify
\* loop then ranges over s.clients as it is now, read without the lock.
updSendStatus ==
    /\ ~crashed
    /\ upd.pc = "send"
    /\ stat = "recv"
    /\ stat' = "log"
    /\ upd' = IF upd.ok /\ clientsLen > 0
              THEN [upd EXCEPT !.pc = "notify", !.arr = clientsArr,
                               !.len = clientsLen, !.live = TRUE, !.i = 1,
                               !.reg = Range(Clients)]
              ELSE [upd EXCEPT !.pc = "sleep"]
    /\ UNCHANGED <<roas, serial, diff, updates, mutex, fetch, ch, wire, now, hist>>
    /\ updUnchanged

\* A notify that announces the serial the next refresh will install.
notifySerialAhead == Inc32(serial)

\* One turn of the notify loop: c.notify(s.serial, s.session).
notifySerial == serial

updNotify ==
    /\ ~crashed
    /\ upd.pc = "notify"
    /\ wire' = Written(wire, upd.arr[upd.i], serialNotifyPDU(session, notifySerial))
    /\ upd' = IF upd.i < upd.len
              THEN [upd EXCEPT !.i = @ + 1]
              ELSE [upd EXCEPT !.pc = "sleep", !.arr = <<>>, !.len = 0,
                               !.live = FALSE, !.i = 0]
    /\ UNCHANGED <<roas, serial, diff, updates, mutex, fetch, ch, stat, now, hist>>
    /\ updUnchanged

\* status: the state is logged under the shared lock, then it waits again.
status ==
    /\ ~crashed
    /\ stat = "log"
    /\ mutex.writer = NoTask
    /\ stat' = "recv"
    /\ UNCHANGED <<roas, serial, session, diff, updates, clientsArr, clientsLen,
                   mutex, upd, fetch, ch, cl, wire, crashed, now, hist, obs>>
    /\ UNCHANGED diffVars

-----------------------------------------------------------------------------

Next ==
    \/ \E c \in Conns : accept(c)
    \/ \E c \in Conns : remove(c)
    \/ \E c \in Conns : recvPDU(c)
    \/ \E c \in Conns : recvEOF(c)
    \/ \E c \in Conns : sendRoaResponse(c)
    \/ \E c \in Conns : sendRoaPrefix(c)
    \/ \E c \in Conns : sendRoaEOD(c)
    \/ \E c \in Conns : serialQueryRead(c)
    \/ \E c \in Conns : sendReset(c)
    \/ \E c \in Conns : sendEmptyResponse(c)
    \/ \E c \in Conns : sendEmptyEOD(c)
    \/ \E c \in Conns : sendDiffResponse(c)
    \/ \E c \in Conns : sendDiffPrefix(c)
    \/ \E c \in Conns : sendDiffEOD(c)
    \/ \E u \in Urls : fetchStart(u)
    \/ \E u \in Urls : fetchSendOnError(u)
    \/ \E u \in Urls : fetchSendFinal(u)
    \/ updLock
    \/ updApply
    \/ updSendStatus
    \/ updNotify
    \/ status

Spec == ServerInit /\ [][Next]_vars

-----------------------------------------------------------------------------
(* The registry and the notify loop with several connections that connect  *)
(* and hang up while the refresh loop runs.                                *)

ManyConns == {"c1", "c2"}

BroadcastInit == InitWith(ManyConns)

\* The connections hang up, or send a PDU whose header does not decode.

BroadcastNext ==
    \/ \E c \in ManyConns : accept(c)
    \/ \E c \in ManyConns : recvEOF(c)
    \/ \E c \in ManyConns : recvPDU(c) /\ cl'[c].exit = "decode"
    \/ \E c \in ManyConns : remove(c)
    \/ \E u \in Urls : fetchStart(u)
    \/ \E u \in Urls : fetchSendOnError(u)
    \/ \E u \in Urls : fetchSendFinal(u)
    \/ updLock
    \/ updApply
    \/ updSendStatus
    \/ updNotify
    \/ status

SpecBroadcast == BroadcastInit /\ [][BroadcastNext]_vars

\* The goroutines of the server are scheduled fairly: a handler that has
\* returned runs its deferred remove, the fetch goroutines, the refresh loop
\* and status each take a step they can take.  Nothing obliges a router to
\* connect, to send or to hang up.
BroadcastFairness ==
    /\ \A c \in ManyConns : WF_vars(remove(c))
    /\ \A u \in Urls : WF_vars(fetchStart(u) \/ fetchSendOnError(u) \/ fetchSendFinal(u))
    /\ WF_vars(updLock \/ updApply \/ updSendStatus \/ updNotify)
    /\ WF_vars(status)

SpecBroadcastFair == BroadcastInit /\ [][BroadcastNext]_vars /\ BroadcastFairness

-----------------------------------------------------------------------------
(* The server with a router that stops reading from its connection while   *)
(* it stays connected.  No write in clients.go sets a deadline, so once    *)
(* the router has stopped reading a conn.Write to it does not return.      *)

\* The connection whose router may stop reading.
Stallers == {"c1"}

\* A write to the connection c does not return.
WriteBlocks(c) == c \in ManyConns /\ ConnOpen(c) /\ cl[c].stall

\* The router of c stops reading.
stopReading(c) ==
    /\ ~crashed
    /\ ConnOpen(c)
    /\ ~cl[c].stall
    /\ cl' = [cl EXCEPT ![c].stall = TRUE]
    /\ UNCHANGED <<wire, obs, mutex>>
    /\ othersUnchanged

\* A Reset Query arrives on c.
recvResetQuery(c) ==
    recvPDU(c) /\ cl'[c].pdu.ptype = resetQuery /\ cl'[c].pdu.version = version1

\* The step of sendRoa the handler of c is at; a step that writes to the
\* socket waits while the write blocks.
sendRoaStep(c) ==
    /\ ~WriteBlocks(c)
    /\ sendRoaResponse(c) \/ sendRoaPrefix(c) \/ sendRoaEOD(c)

\* One turn of the notify loop; it waits while the write blocks.
updNotifyStep ==
    /\ upd.pc = "notify"
    /\ ~WriteBlocks(upd.arr[upd.i])
    /\ updNotify

\* A fetch of a source that answers with the document of the list ListCB.
fetchGood(u) == fetchStart(u) /\ ~fetch'[u].err /\ fetch'[u].list = ListCB

StallInit == InitWith(ManyConns)

StallNext ==
    \/ \E c \in ManyConns : accept(c)
    \/ \E c \in ManyConns : recvResetQuery(c)
    \/ \E c \in ManyConns : sendRoaStep(c)
    \/ \E c \in Stallers : stopReading(c)
    \/ \E u \in Urls : fetchGood(u)
    \/ \E u \in Urls : fetchSendFinal(u)
    \/ updLock
    \/ updApply
    \/ updSendStatus
    \/ updNotifyStep
    \/ status

\* The goroutines are scheduled fairly: the acceptor, every handler, the
\* fetch goroutines, the refresh loop and status each take a step they can
\* take.  Nothing obliges a router to send a query or to stop reading.
StallFairness ==
    /\ \A c \in ManyConns : WF_vars(accept(c))
    /\ \A c \in ManyConns : WF_vars(sendRoaStep(c))
    /\ \A u \in Urls : WF_vars(fetchGood(u) \/ fetchSendFinal(u))
    /\ WF_vars(updLock \/ updApply \/ updSendStatus \/ updNotifyStep)
    /\ WF_vars(status)

SpecStall == StallInit /\ [][StallNext]_vars /\ StallFairness

-----------------------------------------------------------------------------
(* The PDU decoders of pdu.go, applied to bounded inputs.                  *)

supportedVersions == {version1, version2}

\* decodePDUHeader(pdu, ver, new) of pdu.go: pdu is the byte slice it is
\* handed, ver the version the session started with, new whether this is
\* the session's first PDU.
decodePDUHeader(pdu, ver, new) ==
    LET zero == [Version |-> 0, Ptype |-> 0]
    IN  IF Len(pdu) < headPDULength THEN [err |-> TRUE, header |-> zero]
        ELSE IF pdu[1] \notin supportedVersions THEN [err |-> TRUE, header |-> zero]
        ELSE IF ~new /\ pdu[1] # ver THEN [err |-> TRUE, header |-> zero]
        ELSE LET header == [Version |-> pdu[1], Ptype |-> pdu[2]]
             IN  IF header.Ptype > 10 \/ header.Ptype = 5
                 THEN [err |-> TRUE, header |-> header]
                 ELSE [err |-> FALSE, header |-> header]

\* A getPDU that takes the length field for the size of the payload.
getPDUWholeLength(r) ==
    IF r.have < minPDULength
    THEN {[err |-> TRUE, alloc |-> <<>>, n |-> 0, fatal |-> FALSE]}
    ELSE LET enough == r.length.hi = 0 /\ r.have - minPDULength >= r.length.lo
         IN  {[err |-> ~enough, alloc |-> <<r.length>>,
               n |-> IF enough THEN minPDULength + r.length.lo ELSE 0,
               fatal |-> FALSE]}

\* getPDU(r): r delivers r.have bytes and then ends; when it delivers a
\* whole header, r.length is the header's length field.  The results the
\* call can have: err, the size of the payload buffer it made (none: <<>>),
\* the number of bytes it returns, and whether make() ended the process for
\* want of memory, which a buffer of 2^32 - k bytes can.
getPDU(r) ==
    IF r.have < minPDULength
    THEN {[err |-> TRUE, alloc |-> <<>>, n |-> 0, fatal |-> FALSE]}
    ELSE LET length == Back32(r.length, 8)
             enough == length.hi = 0 /\ r.have - minPDULength >= length.lo
         IN  IF length = U32(0, 0)
             THEN {[err |-> FALSE, alloc |-> <<>>, n |-> minPDULength, fatal |-> FALSE]}
             ELSE {[err |-> ~enough, alloc |-> <<length>>,
                    n |-> IF enough THEN minPDULength + length.lo ELSE 0,
                    fatal |-> FALSE]}
                  \cup (IF length.hi > 0
                        THEN {[err |-> FALSE, alloc |-> <<length>>, n |-> 0, fatal |-> TRUE]}
                        ELSE {})

HeaderSlices ==
    {<<>>} \cup {<<v>> : v \in 0..MaxVersionByte}
           \cup {<<v, t>> : v \in 0..MaxVersionByte, t \in 0..MaxTypeByte}

DecodeInputs ==
    {[op |-> "decode", pdu |-> h, ver |-> v, new |-> n] :
        h \in HeaderSlices, v \in supportedVersions, n \in BOOLEAN}

LengthFields == {U32(0, n) : n \in 0..MaxLengthField} \cup {U32(65535, 65535)}

StreamInputs ==
    {[op |-> "getPDU", length |-> l, have |-> h] : l \in LengthFields, h \in 0..MaxStream}

\* binary.BigEndian.Uint32 of four bytes.
BigEndianUint32(b) == U32(b[1] * 256 + b[2], b[3] * 256 + b[4])

\* PDUs as a router writes them, byte by byte, in both protocol versions: a
\* Reset Query (8 bytes) and a Serial Query (12 bytes, serial 258).
RouterPDUs ==
    {<<v, resetQuery, 0, 0, 0, 0, 0, 8>> : v \in supportedVersions}
    \cup {<<v, serialQuery, 18, 52, 0, 0, 0, 12, 0, 0, 1, 2>> : v \in supportedVersions}

\* A connection's bytes: some PDUs one after the other, of which the first
\* have bytes arrive before the connection ends.
FrameInputs ==
    {[op |-> "frame", pdus |-> ps, stream |-> SubSeq(Flatten(ps), 1, h)] :
        <<ps, h>> \in {<<q, k>> \in (UNION {[1..n -> RouterPDUs] : n \in 1..MaxPdus})
                                      \X (0..(12 * MaxPdus)) :
                           k <= Len(Flatten(q))}}

\* What binary.Write puts on the wire for a value of a fixed-size type:
\* a uint8, a uint16 and a uint32 (a U32).
WriteUint8(x) == <<x>>
WriteUint16(x) == <<x \div 256, x % 256>>
WriteUint32(x) == WriteUint16(x.hi) \o WriteUint16(x.lo)

\* uint32(n) of a number n below 2^31.
AsU32(n) == U32(n \div 65536, n % 65536)

\* What binary.Write puts on the wire for an int or a string: nothing, as
\* it returns an error for a value whose type has no fixed size.
WriteUnsized(x) == <<>>

\* ipv4ToByte and ipv6ToByte of the addresses of the model.
AddrBytes(a) ==
    IF a \in V4Addrs THEN <<10, 0, 0, 0>>
    ELSE <<32>> \o [k \in 1..15 |-> 0]

\* The errorReportPDU struct: an error code and a text (its bytes).
errorReportPDU(code, report) == [ptype |-> errorReport, code |-> code, report |-> report]

\* serialize: the bytes each PDU type's method writes.  All but the Error
\* Report are one binary.Write of a struct of fixed-size fields; the Error
\* Report is written field by field, its total length and its text length
\* as ints and its text as a string.
serialize(p) ==
    CASE p.ptype = serialNotify ->
            WriteUint8(p.version) \o WriteUint8(p.ptype) \o WriteUint16(p.session)
            \o WriteUint32(AsU32(p.length)) \o WriteUint32(p.serial)
      [] p.ptype \in {cacheResponse} ->
            WriteUint8(p.version) \o WriteUint8(p.ptype) \o WriteUint16(p.session)
            \o WriteUint32(AsU32(p.length))
      [] p.ptype \in {ipv4Prefix, ipv6Prefix} ->
            WriteUint8(p.version) \o WriteUint8(p.ptype) \o WriteUint16(p.zero16)
            \o WriteUint32(AsU32(p.length)) \o WriteUint8(p.flags) \o WriteUint8(p.min)
            \o WriteUint8(p.max) \o WriteUint8(p.zero8) \o AddrBytes(p.prefix)
            \o WriteUint32(AsU32(p.asn))
      [] p.ptype = endOfData ->
            WriteUint8(p.version) \o WriteUint8(p.ptype) \o WriteUint16(p.session)
            \o WriteUint32(AsU32(p.length)) \o WriteUint32(p.serial)
            \o WriteUint32(AsU32(p.refresh)) \o WriteUint32(AsU32(p.retry))
            \o WriteUint32(AsU32(p.expire))
      [] p.ptype = cacheReset ->
            WriteUint8(p.version) \o WriteUint8(p.ptype) \o WriteUint16(p.zero)
            \o WriteUint32(AsU32(p.length))
      [] p.ptype = errorReport ->
            LET reportLength == Len(p.report)
                totalLength == 128 + reportLength
            IN  WriteUint8(version1) \o WriteUint8(errorReport) \o WriteUint16(p.code)
                \o WriteUnsized(totalLength) \o WriteUint32(AsU32(0))
                \o WriteUnsized(reportLength) \o WriteUnsized(p.report)

\* The PDUs the server has a serialize method for, with values that fill
\* one and two bytes of a field.
SerializeInputs ==
    {[op |-> "serialize", pdu |-> p] : p \in
        {serialNotifyPDU(e, x) : e \in {0, 4660}, x \in DiffSerials}
        \cup {cacheResponsePDU(e) : e \in {0, 4660}}
        \cup {writePrefixPDU(r, f) : r \in RoaUniverse, f \in {withdraw, announce}}
        \cup {endOfDataPDU(e, x, refresh, retry, expire) : e \in {0, 4660}, x \in DiffSerials}
        \cup {cacheResetPDU}
        \cup {errorReportPDU(c, t) : c \in 0..8,
                                      t \in UNION {[1..n -> {101}] : n \in 0..MaxText}}}

\* NewPDUSerializer: the switch on the version byte.
NewPDUSerializer(version) ==
    CASE version = 0 -> [err |-> FALSE, ser |-> "V1Serializer"]
      [] version = 1 -> [err |-> FALSE, ser |-> "V2Serializer"]
      [] OTHER -> [err |-> TRUE, ser |-> None]

\* The version byte in the struct literal of each method of V1Serializer
\* and of V2Serializer (SerialNotify, CacheResponse, IPv4Prefix, IPv6Prefix).
SerializerVersion(ser, ptype) ==
    IF ser = "V1Serializer" THEN version1
    ELSE IF ptype = ipv6Prefix THEN version1
    ELSE version2

\* A method of a serializer on the arguments held in p: one binary.Write of
\* the struct, whose other fields are those of the serialize methods.
SerializerWrite(ser, p) ==
    serialize([p EXCEPT !.version = SerializerVersion(ser, p.ptype)])

\* Version bytes and arguments for the methods the serializers have.
SerializerInputs ==
    {[op |-> "serializer", version |-> v, pdu |-> p] :
        v \in 0..MaxVersionByte,
        p \in {serialNotifyPDU(e, x) : e \in {0, 4660}, x \in DiffSerials}
              \cup {cacheResponsePDU(e) : e \in {0, 4660}}
              \cup {writePrefixPDU(r, f) : r \in RoaUniverse, f \in {withdraw, announce}}}

PduInit ==
    /\ hIn \in DecodeInputs \cup StreamInputs \cup FrameInputs \cup SerializeInputs
               \cup SerializerInputs
    /\ hOut = <<>>
    /\ dNew = <<>> /\ dOld = <<>> /\ dSerial = U32(0, 0) /\ dOut = <<>>
    /\ roas = <<>> /\ serial = U32(0, 0) /\ session = 0 /\ diff = None
    /\ updates = None /\ clientsArr = <<>> /\ clientsLen = 0 /\ mutex = None
    /\ upd = None /\ fetch = None /\ ch = <<>> /\ stat = None /\ cl = None
    /\ wire = None /\ crashed = FALSE /\ now = 0 /\ hist = <<>> /\ obs = None

DecodeCall ==
    /\ hOut = <<>>
    /\ hIn.op = "decode"
    /\ hOut' = <<decodePDUHeader(hIn.pdu, hIn.ver, hIn.new)>>
    /\ UNCHANGED <<dNew, dOld, dSerial, dOut, hIn>>
    /\ UNCHANGED serverVars

GetPDUCall ==
    /\ hOut = <<>>
    /\ hIn.op = "getPDU"
    /\ \E o \in getPDU(hIn) : hOut' = <<o>>
    /\ UNCHANGED <<dNew, dOld, dSerial, dOut, hIn>>
    /\ UNCHANGED serverVars

\* What the reader still holds after the calls made so far.
Unread == IF hOut = <<>> THEN hIn.stream ELSE hOut[Len(hOut)].rest

\* The next getPDU on the connection, and decodePDUHeader on the first two
\* bytes of what it returns, with the version of the session's first PDU.
\* A getPDU that fails has read all the reader had.
FrameCall ==
    /\ hIn.op = "frame"
    /\ IF hOut = <<>> THEN TRUE ELSE ~hOut[Len(hOut)].err
    /\ LET r == [length |-> IF Len(Unread) >= minPDULength
                            THEN BigEndianUint32(SubSeq(Unread, 5, 8))
                            ELSE U32(0, 0),
                 have |-> Len(Unread)]
       IN  \E o \in getPDU(r) :
              /\ ~o.fatal
              /\ LET pdu == SubSeq(Unread, 1, o.n)
                     new == hOut = <<>>
                     ver == IF new THEN 0 ELSE hOut[1].pdu[1]
                 IN  hOut' = Append(hOut,
                        [err |-> o.err, pdu |-> pdu,
                         rest |-> IF o.err THEN <<>>
                                  ELSE SubSeq(Unread, o.n + 1, Len(Unread)),
                         header |-> IF o.err THEN <<>>
                                    ELSE <<decodePDUHeader(SubSeq(pdu, 1, 2), ver, new)>>])
    /\ UNCHANGED <<dNew, dOld, dSerial, dOut, hIn>>
    /\ UNCHANGED serverVars

\* pdu.serialize(c.conn)
SerializeCall ==
    /\ hOut = <<>>
    /\ hIn.op = "serialize"
    /\ hOut' = <<serialize(hIn.pdu)>>
    /\ UNCHANGED <<dNew, dOld, dSerial, dOut, hIn>>
    /\ UNCHANGED serverVars

\* NewPDUSerializer(version), then the method for the PDU on the result.
SerializerCall ==
    /\ hOut = <<>>
    /\ hIn.op = "serializer"
    /\ LET n == NewPDUSerializer(hIn.version)
       IN  hOut' = <<[err |-> n.err,
                      bytes |-> IF n.err THEN <<>> ELSE SerializerWrite(n.ser, hIn.pdu)]>>
    /\ UNCHANGED <<dNew, dOld, dSerial, dOut, hIn>>
    /\ UNCHANGED serverVars

PduNext == DecodeCall \/ GetPDUCall \/ FrameCall \/ SerializeCall \/ SerializerCall

SpecPdu == PduInit /\ [][PduNext]_vars

-----------------------------------------------------------------------------
(* The functions of common.go that turn fetched records into the ROA set,  *)
(* applied to bounded inputs.                                              *)

\* ROAs as a source may hold them: valid ones, and one for every check of
\* isValid that fails, at and next to the limits of both families.
RawUniverse ==
    {RoaA, RoaC,
     Roa("10.0.0.0", 8, 0, 7),
     Roa("10.0.0.0", 24, 16, 7),
     Roa("10.0.0.0", 8, 32, 7),
     Roa("10.0.0.0", 8, 33, 7),
     Roa("2000::", 3, 128, 25),
     Roa("2000::", 3, 129, 25)}

RawLists == UNION {[1..n -> RawUniverse] : n \in 0..MaxRaw}

ValidateInputs == {[op |-> "validate", roas |-> l] : l \in RawLists}

\* strconv.Atoi: an optional sign and then decimal digits, at least one;
\* anything else is an error.
RECURSIVE DecimalValue(_)
DecimalValue(ds) ==
    IF ds = <<>> THEN 0
    ELSE 10 * DecimalValue(SubSeq(ds, 1, Len(ds) - 1))
         + (CHOOSE k \in 0..9 : DigitChars[k + 1] = ds[Len(ds)])

Atoi(t) ==
    LET signed == t # <<>> /\ t[1] \in {"+", "-"}
        digits == IF signed THEN Tail(t) ELSE t
    IN  IF digits = <<>> \/ \E k \in DOMAIN digits : digits[k] \notin Range(DigitChars)
        THEN [err |-> TRUE, n |-> 0]
        ELSE [err |-> FALSE,
              n |-> IF signed /\ t[1] = "-" THEN 0 - DecimalValue(digits)
                    ELSE DecimalValue(digits)]

\* uint32(n) of an int n between -2^31 and 2^31.
Uint32OfInt(n) ==
    IF n >= 0 THEN U32(n \div 65536, n % 65536)
    ELSE U32(65535 - ((0 - n - 1) \div 65536), 65535 - ((0 - n - 1) % 65536))

\* asnToUint32(a): Atoi of a[2:], 0 when that fails.  a[2:] of a string
\* shorter than two bytes is a run-time panic.
asnToUint32(a) ==
    IF Len(a) < 2 THEN [panic |-> TRUE, value |-> U32(0, 0)]
    ELSE LET r == Atoi(SubSeq(a, 3, Len(a)))
         IN  [panic |-> FALSE, value |-> IF r.err THEN U32(0, 0) ELSE Uint32OfInt(r.n)]

\* The characters of the ASN texts of the model.
AsnChars == {"A", "S", "0", "1", "7", "-", "w"}

AsnInputs ==
    {[op |-> "asn", text |-> t] : t \in UNION {[1..n -> AsnChars] : n \in 0..MaxAsnText}}

CommonInit ==
    /\ hIn \in ValidateInputs \cup AsnInputs
    /\ hOut = <<>>
    /\ dNew = <<>> /\ dOld = <<>> /\ dSerial = U32(0, 0) /\ dOut = <<>>
    /\ roas = <<>> /\ serial = U32(0, 0) /\ session = 0 /\ diff = None
    /\ updates = None /\ clientsArr = <<>> /\ clientsLen = 0 /\ mutex = None
    /\ upd = None /\ fetch = None /\ ch = <<>> /\ stat = None /\ cl = None
    /\ wire = None /\ crashed = FALSE /\ now = 0 /\ hist = <<>> /\ obs = None

\* validROAs := GetSetOfValidatedROAs(roas)
ValidateCall ==
    /\ hOut = <<>>
    /\ hIn.op = "validate"
    /\ hOut' = <<GetSetOfValidatedROAs(hIn.roas)>>
    /\ UNCHANGED <<dNew, dOld, dSerial, dOut, hIn>>
    /\ UNCHANGED serverVars

\* GetSetOfValidatedROAs applied to the list a call of it returned.
ValidateAgain ==
    /\ Len(hOut) = 1
    /\ hIn.op = "validate"
    /\ hOut' = Append(hOut, GetSetOfValidatedROAs(hOut[1]))
    /\ UNCHANGED <<dNew, dOld, dSerial, dOut, hIn>>
    /\ UNCHANGED serverVars

\* return asnToUint32(atype), in decodeASN
AsnCall ==
    /\ hOut = <<>>
    /\ hIn.op = "asn"
    /\ hOut' = <<asnToUint32(hIn.text)>>
    /\ UNCHANGED <<dNew, dOld, dSerial, dOut, hIn>>
    /\ UNCHANGED serverVars

CommonNext == ValidateCall \/ ValidateAgain \/ AsnCall

SpecCommon == CommonInit /\ [][CommonNext]_vars

-----------------------------------------------------------------------------
(* Reading the wire and the history.                                       *)

\* The PDUs of a connection that its own handler wrote: Serial Notify is
\* the one PDU written by the refresh loop.
Own(w) == SelectSeq(w, LAMBDA p : p.ptype # serialNotify)

IsPrefixPDU(p) == p.ptype \in {ipv4Prefix, ipv6Prefix}

\* The ROA a prefix PDU carries.
RoaOf(p) == Roa(p.prefix, p.min, p.max, p.asn)

Announced(w) == {RoaOf(w[k]) : k \in {j \in DOMAIN w : IsPrefixPDU(w[j]) /\ w[j].flags = 1}}
Withdrawn(w) == {RoaOf(w[k]) : k \in {j \in DOMAIN w : IsPrefixPDU(w[j]) /\ w[j].flags = 0}}

\* The ROA sets the cache held at serial s (one set, or none if it never
\* held that serial).
HeldAt(s) == {Range(hist[k].roas) : k \in {j \in DOMAIN hist : hist[j].serial = s}}

\* The handler of c has finished the reply to a query of type t.
Answered(c, t) ==
    /\ cl[c].pc \in {"read", "remove", "gone"}
    /\ cl[c].pdu.ptype = t
    /\ cl[c].pdu.version = 1

\* w is Cache Response, prefix PDUs, End Of Data.
IsDataReply(w) ==
    /\ Len(w) >= 2
    /\ w[1].ptype = cacheResponse
    /\ w[Len(w)].ptype = endOfData
    /\ \A k \in 2..(Len(w) - 1) : IsPrefixPDU(w[k])

-----------------------------------------------------------------------------
(* Claims.                                                                 *)

\* C1: a complete reply to a Reset Query comes from one cache revision: the
\* prefixes announced before End Of Data(serial S) are exactly the ROA set
\* the cache held at serial S.
C1_ResetReplyOneRevision ==
    \A c \in Conns :
        LET w == Own(wire[c])
        IN  (Answered(c, resetQuery) /\ IsDataReply(w))
                => Announced(w) \in HeldAt(w[Len(w)].serial)

\* C2: a Serial Query for a serial q the cache has held, answered with
\* Cache Response ... End Of Data(serial E), carries the change from the
\* set held at q to the set held at E; a reply without prefix PDUs has E = q.
C2_SerialReplyIsTheDiff ==
    \A c \in Conns :
        LET w == Own(wire[c])
            q == cl[c].pdu.serial
            e == w[Len(w)].serial
        IN  (Answered(c, serialQuery) /\ IsDataReply(w) /\ HeldAt(q) # {})
                => /\ \A old \in HeldAt(q) :
                        ((old \ Withdrawn(w)) \cup Announced(w)) \in HeldAt(e)
                   /\ (Len(w) = 2 => e = q)

\* C3: every Serial Notify on a wire carries a serial the cache has already
\* been advanced to, and while the notify loop runs the ROA set and the
\* retained diff of that serial are the installed ones.
C3_NotifyAfterAdvance ==
    /\ \A c \in Conns : \A k \in DOMAIN wire[c] :
          wire[c][k].ptype = serialNotify
              => /\ Len(hist) >= 2
                 /\ \E j \in 2..Len(hist) : hist[j].serial = wire[c][k].serial
    /\ upd.pc = "notify"
          => /\ hist[Len(hist)] = Revision(serial, roas)
             /\ diff.newSerial = serial

\* A connection has been written a Serial Notify.
C3_Witness ==
    \E c \in Conns : \E k \in DOMAIN wire[c] : wire[c][k].ptype = serialNotify

\* C4: whenever the cache lock is free after a successful refresh, the
\* retained diff is labelled (serial - 1, serial) and its add and del lists
\* are the difference between the previous and the current ROA set.
C4_RetainedDiffIsLastStep ==
    (mutex.writer = NoTask /\ Len(hist) >= 2)
        => LET cur  == Range(hist[Len(hist)].roas)
               prev == Range(hist[Len(hist) - 1].roas)
           IN  /\ diff.newSerial = serial
               /\ diff.oldSerial = Dec32(serial)
               /\ Range(diff.addRoa) = cur \ prev
               /\ Range(diff.delRoa) = prev \ cur

\* C5: a step changes the serial only if it is a successful refresh, and a
\* successful refresh adds exactly one to it modulo 2^32.
C5_SerialStep ==
    [][IF upd.pc = "wait" /\ upd'.pc = "send" /\ upd'.ok
       THEN serial' = IF serial = U32(65535, 65535) THEN U32(0, 0)
                      ELSE IF serial.lo = 65535 THEN U32(serial.hi + 1, 0)
                      ELSE U32(serial.hi, serial.lo + 1)
       ELSE serial' = serial]_vars

\* The serial has wrapped from 2^32-1 to 0, and the refresh after that
\* found the ROA set unchanged.
C5_Witness ==
    /\ Len(hist) = 4
    /\ hist[2].serial = U32(65535, 65535)
    /\ hist[3].serial = U32(0, 0)
    /\ hist[4].serial = U32(0, 1)
    /\ hist[4].roas = hist[3].roas
    /\ serial = U32(0, 1)

\* The refresh loop waits in wg.Wait() for a goroutine that is blocked for
\* good on the full result channel, with the cache lock held.
RefreshBlocked ==
    /\ upd.pc = "wait"
    /\ \E u \in Urls : fetch[u].pc # "done"
    /\ \A u \in Urls : fetch[u].pc # "done" =>
          (fetch[u].pc \in {"getSend", "readSend", "unmSend", "pfxSend", "final"} /\ chFull)

\* C6: after a source has failed (fetch, body read, JSON or prefix parse),
\* the server goes on: the process is alive and the refresh loop is not
\* stuck with the cache lock, and set, serial and diff are the old ones.
C6_FailedIngestKeepsServing ==
    (\E u \in Urls : fetch[u].err)
        => /\ ~crashed
           /\ ~RefreshBlocked
           /\ hist[Len(hist)] = Revision(serial, roas)

\* C7: makeDiff's add is exactly the ROAs of new that equal no ROA of old
\* in prefix, max length and ASN, and its del exactly the ROAs of old that
\* equal no ROA of new.
C7_DiffIsFullValueDifference ==
    dOut # <<>>
        => /\ Range(dOut[1].addRoa) = Range(dNew) \ Range(dOld)
           /\ Range(dOut[1].delRoa) = Range(dOld) \ Range(dNew)

\* C8: makeDiff(A, B, S) is labelled (S, S+1), reports no change exactly
\* when the validated, deduplicated sets of A and B are equal, and reports
\* a change exactly when add or del is non-empty.
C8_DiffLabelsAndFlag ==
    dOut # <<>>
        => /\ dOut[1].oldSerial = dSerial
           /\ dOut[1].newSerial = Inc32(dSerial)
           /\ (dOut[1].diff = FALSE) <=>
                 (Range(GetSetOfValidatedROAs(dNew)) = Range(GetSetOfValidatedROAs(dOld)))
           /\ dOut[1].diff <=> (dOut[1].addRoa # <<>> \/ dOut[1].delRoa # <<>>)

\* The prefix PDU p announces the ROA r.
AnnouncesRoa(p, r) ==
    /\ p.ptype = (IF r.addr \in V4Addrs THEN ipv4Prefix ELSE ipv6Prefix)
    /\ p.flags = announce
    /\ p.min = r.bits
    /\ p.max = r.maxMask
    /\ p.prefix = r.addr
    /\ p.asn = r.asn

\* C9: what the session task writes on a Reset Query is, in this order,
\* one Cache Response, one announcing prefix PDU for each ROA of the set it
\* read from the cache (type 4 or 6 by family, with the ROA's prefix length,
\* max length, prefix and ASN), and one End Of Data with the cache's serial
\* as it was when the End Of Data was written.
C9_ResetReplyShape ==
    \A c \in Conns :
        LET w == Own(wire[c])
            l == obs[c].list
        IN  (cl[c].pdu.ptype = resetQuery /\ cl[c].pdu.version = version1
                /\ cl[c].pc # "roaCR")
                => /\ Len(w) >= 1
                   /\ Len(w) <= Len(l) + 2
                   /\ w[1].ptype = cacheResponse
                   /\ \A k \in 2..Len(w) :
                         IF k <= Len(l) + 1
                         THEN AnnouncesRoa(w[k], l[k - 1])
                         ELSE /\ w[k].ptype = endOfData
                              /\ w[k].serial = obs[c].serial
                              /\ cl[c].pc \in {"read", "remove", "gone"}
                   /\ cl[c].pc \in {"read", "remove", "gone"}
                         => /\ Len(w) = Len(l) + 2
                            /\ \E j \in DOMAIN hist : hist[j].roas = l

\* A Reset Query has been answered with a v4 and a v6 prefix.
C9_Witness ==
    \E c \in Conns :
        /\ Answered(c, resetQuery)
        /\ Len(Own(wire[c])) = 4
        /\ Own(wire[c])[2].ptype = ipv4Prefix
        /\ Own(wire[c])[3].ptype = ipv6Prefix
        /\ Own(wire[c])[4].ptype = endOfData

\* What the session task has written for the Serial Query of c, given the
\* cache's serial when the query was taken up.
C10_OneReply ==
    \A c \in Conns :
        LET w == Own(wire[c])
            q == cl[c].pdu.serial
            cur == obs[c].serial
            resets == {k \in DOMAIN w : w[k].ptype = cacheReset}
            responses == {k \in DOMAIN w : w[k].ptype = cacheResponse}
        IN  (cl[c].pdu.ptype = serialQuery /\ cl[c].pdu.version = version1
                /\ cl[c].pc # "sqRead")
                => /\ Cardinality(resets) + Cardinality(responses) <= 1
                   /\ (q # cur /\ q # Dec32(cur))
                         => \/ cl[c].pc = "sendReset" /\ w = <<>>
                            \/ /\ cl[c].pc \in {"read", "remove", "gone"}
                               /\ Len(w) = 1
                               /\ w[1].ptype = cacheReset
                   /\ cl[c].pc \in {"read", "remove", "gone"}
                         => \/ Len(w) = 1 /\ w[1].ptype = cacheReset
                                /\ q # cur /\ q # Dec32(cur)
                            \/ IsDataReply(w) /\ (q = cur \/ q = Dec32(cur))
                                /\ (q = cur => Len(w) = 2)

\* C10: a Serial Query for a serial that is neither the current one nor the
\* one before it is answered with one Cache Reset and nothing else, after
\* which the session is reading the next query; every Serial Query gets
\* exactly one of Cache Reset, empty response and diff response.
C10_UnknownSerialGetsReset ==
    /\ []C10_OneReply
    /\ [][\A c \in Conns : cl[c].pc = "sendReset" => cl'[c].pc \in {"sendReset", "read"}]_vars

\* A Serial Query two serials behind has been answered with a Cache Reset.
C10_Witness ==
    \E c \in Conns :
        /\ Answered(c, serialQuery)
        /\ cl[c].pdu.serial \notin {obs[c].serial, Dec32(obs[c].serial)}
        /\ Len(Own(wire[c])) = 1
        /\ Own(wire[c])[1].ptype = cacheReset

\* C11: the session id chosen at start never changes, and every Cache
\* Response, End Of Data and Serial Notify written to any client carries it.
C11_OneSessionId ==
    \A c \in Conns : \A k \in DOMAIN wire[c] :
        wire[c][k].ptype \in {cacheResponse, endOfData, serialNotify}
            => wire[c][k].session = session

\* The session task of c has written an Error Report.
ErrorReported(c) == \E k \in DOMAIN wire[c] : wire[c][k].ptype = errorReport

Closed(c) == cl[c].pc \in {"remove", "gone"}

\* C12: the first PDU of a session, with version byte 1 or 2, is accepted
\* and its version latched; a later PDU with another version byte is
\* answered with an Error Report and the session closed.
C12_VersionLatched ==
    \A c \in Conns :
        /\ (cl[c].nq = 1 /\ cl[c].pdu.version \in {version1, version2})
              => cl[c].exit # "decode"
        /\ (cl[c].nq >= 2 /\ cl[c].pdu.version # cl[c].first)
              => Closed(c) /\ ErrorReported(c)

\* C13: a session closed for a protocol error (a header that does not
\* decode) has been written an Error Report before; a session closed for a
\* transport error (getPDU failed) has not.
C13_ProtocolErrorsReported ==
    \A c \in Conns :
        /\ cl[c].exit = "decode" => ErrorReported(c)
        /\ cl[c].exit = "eof" => ~ErrorReported(c)

\* C14: a well-formed PDU of a supported type that is no query and no
\* Serial Notify is answered with an Error Report (Unsupported PDU Type, 5)
\* and the session is closed.
C14_OtherTypesRejected ==
    \A c \in Conns :
        (cl[c].nq >= 1 /\ cl[c].pdu.version = cl[c].first
            /\ cl[c].pdu.ptype \in {cacheResponse, ipv4Prefix, ipv6Prefix, endOfData,
                                    cacheReset, errorReport})
            => /\ Closed(c)
               /\ cl[c].exit # "eof"
               /\ \E k \in DOMAIN wire[c] :
                     wire[c][k].ptype = errorReport /\ wire[c][k].code = 5

\* C15: decodePDUHeader accepts a header only if its version byte is 1 or 2
\* and its type byte one of 0,1,2,3,4,6,7,8,10 (types 5, 9 and 11 up are an
\* error), and on success returns the header's type and version bytes.
C15_HeaderAccepted ==
    (hOut # <<>> /\ hIn.op = "decode" /\ Len(hIn.pdu) = 2)
        => /\ ~hOut[1].err
              => /\ hIn.pdu[1] \in {1, 2}
                 /\ hIn.pdu[2] \in {0, 1, 2, 3, 4, 6, 7, 8, 10}
                 /\ hOut[1].header.Version = hIn.pdu[1]
                 /\ hOut[1].header.Ptype = hIn.pdu[2]
           /\ (hIn.pdu[2] \in {5, 9} \/ hIn.pdu[2] >= 11) => hOut[1].err

\* C16: given a header whose length field is below 8, getPDU returns an
\* error and makes no payload buffer; the size of a buffer it makes is the
\* length field minus 8, never a wrapped value.
C16_ShortLengthRejected ==
    (hOut # <<>> /\ hIn.op = "getPDU" /\ hIn.have >= 8)
        => /\ (hIn.length.hi = 0 /\ hIn.length.lo < 8)
              => hOut[1].err /\ hOut[1].alloc = <<>> /\ ~hOut[1].fatal
           /\ hOut[1].alloc # <<>>
              => \/ hIn.length.hi > 0
                 \/ hIn.length.lo >= 8 /\ hOut[1].alloc[1] = U32(0, hIn.length.lo - 8)

\* How often c is listed in s.clients.
Listed(c) == Cardinality({k \in 1..clientsLen : clientsArr[k] = c})

NotifiedOf(c, s) ==
    Cardinality({k \in DOMAIN wire[c] :
                    wire[c][k].ptype = serialNotify /\ wire[c][k].serial = s})

\* C18: when the broadcast after a refresh to serial S is over, every
\* session that was registered when it began and is still being served has
\* been written exactly one Serial Notify carrying S.
C18_OneNotifyEach ==
    (upd.pc = "sleep" /\ upd.n >= 1 /\ upd.ok)
        => \A c \in upd.reg :
              cl[c].pc = "read" => NotifiedOf(c, serial) = 1

\* C19: on no connection does a Serial Notify stand between a Cache
\* Response and the End Of Data that closes it: the refresh task never
\* writes into a reply of the session task.
C19_NotifyOutsideReplies ==
    \A c \in Conns : \A k \in DOMAIN wire[c] :
        wire[c][k].ptype = serialNotify
            => ~\E j \in 1..(k - 1) :
                   /\ wire[c][j].ptype = cacheResponse
                   /\ \A e \in (j + 1)..(k - 1) : wire[c][e].ptype # endOfData

\* C20: readROAs returns whatever the URLs do: the process lives and the
\* refresh loop is not left waiting for good; a fetch task sends one list
\* and is done; a URL that failed has contributed no ROA, and a URL that
\* succeeded has contributed all of its ROAs.
C20_ReadROAsReturns ==
    /\ ~crashed
    /\ ~RefreshBlocked
    /\ \A u \in Urls :
          /\ fetch[u].sent <= 1
          /\ fetch[u].sent = 1 => fetch[u].pc = "done"
          /\ fetch[u].err => fetch[u].gave = <<>>
          /\ (fetch[u].pc = "done" /\ ~fetch[u].err) => fetch[u].gave = fetch[u].list

\* The validity rule of a ROA: the max length is above zero, not below the
\* prefix length, and at most 32 for IPv4 and 128 for IPv6.
WellFormedRoa(r) ==
    /\ r.maxMask > 0
    /\ r.maxMask >= r.bits
    /\ r.maxMask <= (IF r.addr \in V4Addrs THEN 32 ELSE 128)

\* C21: GetSetOfValidatedROAs returns exactly the ROAs of its input that
\* satisfy the validity rule: no invalid ROA is in the result and every
\* valid ROA of the input is.
C21_ExactlyTheValid ==
    (hIn.op = "validate" /\ hOut # <<>>)
        => Range(hOut[1]) = {r \in Range(hIn.roas) : WellFormedRoa(r)}

\* A list with an IPv4 ROA of max length 33, an IPv4 ROA of max length 32
\* and an IPv6 ROA of max length 128 has been validated.
C21_Witness ==
    /\ hIn.op = "validate"
    /\ hOut # <<>>
    /\ Roa("10.0.0.0", 8, 33, 7) \in Range(hIn.roas)
    /\ Roa("10.0.0.0", 8, 32, 7) \in Range(hIn.roas)
    /\ Roa("2000::", 3, 128, 25) \in Range(hIn.roas)
    /\ Len(hOut[1]) = 2

\* Where r first stands in l.
FirstSeen(l, r) == CHOOSE i \in DOMAIN l : l[i] = r /\ \A j \in 1..(i - 1) : l[j] # r

\* C22: the list GetSetOfValidatedROAs returns has no two equal ROAs, keeps
\* the ROAs in the order in which the input first shows them, and is
\* returned unchanged when the function is applied to it.
C22_UniqueOrderedIdempotent ==
    (hIn.op = "validate" /\ hOut # <<>>)
        => LET out == hOut[1]
           IN  /\ \A i, j \in DOMAIN out : out[i] = out[j] => i = j
               /\ \A i, j \in DOMAIN out :
                     i < j => FirstSeen(hIn.roas, out[i]) < FirstSeen(hIn.roas, out[j])
               /\ Len(hOut) = 2 => hOut[2] = out

\* A list that repeats a ROA after another one has been validated, and the
\* result validated again.
C22_Witness ==
    /\ hIn.op = "validate"
    /\ Len(hOut) = 2
    /\ hIn.roas = <<RoaC, RoaA, RoaC>>
    /\ hOut[1] = <<RoaC, RoaA>>

\* C23: makeDiff does not depend on the order of its input lists nor on
\* repeated elements: called with any other lists holding the same ROAs it
\* returns the same ROAs in add and in del and the same has_changes flag.
C23_DiffOrderInsensitive ==
    dOut # <<>>
        => \A n2, o2 \in RoaLists :
              (Range(n2) = Range(dNew) /\ Range(o2) = Range(dOld))
                  => \A d \in makeDiff(n2, o2, dSerial) :
                        /\ Range(d.addRoa) = Range(dOut[1].addRoa)
                        /\ Range(d.delRoa) = Range(dOut[1].delRoa)
                        /\ d.diff = dOut[1].diff

\* The bytes of a stream before its k-th PDU.
Before(ps, k) == Len(Flatten(SubSeq(ps, 1, k - 1)))

FrameLength(p) ==
    CASE p.ptype = serialNotify -> 12
      [] p.ptype \in {cacheResponse, cacheReset} -> 8
      [] p.ptype = ipv4Prefix -> 20
      [] p.ptype = ipv6Prefix -> 32
      [] p.ptype = endOfData -> 24
      [] p.ptype = errorReport -> 16 + 0 + Len(p.report)

\* C25: the bytes 4..7 of every PDU the server encodes are, big-endian,
\* the number of bytes written for it, which is the number the protocol
\* gives its type.
C25_LengthFieldIsByteCount ==
    (hIn.op = "serialize" /\ hOut # <<>>)
        => /\ Len(hOut[1]) = FrameLength(hIn.pdu)
           /\ BigEndianUint32(SubSeq(hOut[1], 5, 8)) = U32(0, Len(hOut[1]))

\* C26: every End Of Data the server writes, in reply to a Reset Query or
\* to a Serial Query for the current or the previous serial, carries the
\* same timers: refresh 3600, retry 600, expire 7200.
C26_EndOfDataTimers ==
    \A c \in Conns : \A k \in DOMAIN wire[c] :
        wire[c][k].ptype = endOfData
            => /\ wire[c][k].refresh = 3600
               /\ wire[c][k].retry = 600
               /\ wire[c][k].expire = 7200

\* The text is one or more decimal digits.
IsDigitString(t) ==
    /\ t # <<>>
    /\ \A k \in DOMAIN t : t[k] \in {"0", "1", "2", "3", "4", "5", "6", "7", "8", "9"}

\* The number a digit string denotes.
RECURSIVE Denoted(_)
Denoted(t) ==
    IF t = <<>> THEN 0
    ELSE 10 * Denoted(SubSeq(t, 1, Len(t) - 1))
         + (CASE t[Len(t)] = "0" -> 0 [] t[Len(t)] = "1" -> 1 [] t[Len(t)] = "2" -> 2
              [] t[Len(t)] = "3" -> 3 [] t[Len(t)] = "4" -> 4 [] t[Len(t)] = "5" -> 5
              [] t[Len(t)] = "6" -> 6 [] t[Len(t)] = "7" -> 7 [] t[Len(t)] = "8" -> 8
              [] t[Len(t)] = "9" -> 9)

\* C27: asnToUint32 never crashes; of a digit string d, and of "AS"
\* followed by d, it returns the number d denotes; of every other text,
\* texts shorter than two characters included, it returns 0.
C27_AsnParsing ==
    (hIn.op = "asn" /\ hOut # <<>>)
        => LET t == hIn.text
               d == IF Len(t) >= 2 /\ t[1] = "A" /\ t[2] = "S"
                    THEN SubSeq(t, 3, Len(t)) ELSE t
           IN  /\ ~hOut[1].panic
               /\ hOut[1].value = IF IsDigitString(d)
                                  THEN U32(0, Denoted(d)) ELSE U32(0, 0)

\* C28: no session task writes to its socket while it holds the cache's
\* shared lock: in a step in which the handler of c writes a PDU, c holds
\* the read lock neither before nor after.
C28_NoWriteUnderReadLock ==
    [][\A c \in Conns :
          Len(Own(wire'[c])) > Len(Own(wire[c]))
              => c \notin mutex.readers /\ c \notin mutex'.readers]_vars

\* C30: while readROAs is fetching from the sources the exclusive cache
\* lock is not held, so that a session that wants the shared lock and an
\* accept that wants the exclusive one can have it.
C30_IngestOutsideLock ==
    (upd.pc = "wait" /\ \E u \in Urls : fetch[u].pc # "done")
        => /\ mutex.writer = NoTask
           /\ \A c \in Conns : cl[c].pc = "sqRead" => ENABLED serialQueryRead(c)
           /\ \A c \in Conns : cl[c].pc = "idle" => ENABLED accept(c)

\* The last PDU the handler of c wrote ends a reply.
ReplyEnded(c) ==
    LET w == Own(wire[c])
    IN  w # <<>> /\ w[Len(w)].ptype \in {endOfData, cacheReset}

\* C29: a router that stops reading does not hold up the rest of the
\* server: the refresh loop still gets through its refreshes, a connection
\* of another router is still accepted, and a query of another router is
\* still answered with End Of Data or Cache Reset.
C29_StalledClientHarmless ==
    /\ <>(upd.n = MaxRefresh /\ upd.pc \in {"send", "notify", "sleep"})
    /\ \A c \in ManyConns \ Stallers : (cl[c].pc = "idle") ~> (cl[c].pc # "idle")
    /\ \A c \in ManyConns \ Stallers :
          (cl[c].pc \in {"roaCR", "roaPfx", "roaEOD"}) ~> (cl[c].pc = "read" /\ ReplyEnded(c))

\* C31: a Serial Query for serial q gets the diff reply only if a refresh
\* has taken the cache from serial q to q + 1; a server that has not
\* refreshed yet (serial 0) answers a Serial Query for 2^32-1 with a Cache
\* Reset and nothing else.
C31_DiffReplyNeedsRetainedDiff ==
    \A c \in Conns :
        LET q == cl[c].pdu.serial
        IN  /\ cl[c].pc \in {"diffCR", "diffPfx"}
                  => \E j \in 1..(Len(hist) - 1) :
                        hist[j].serial = q /\ hist[j + 1].serial = Inc32(q)
            /\ (Answered(c, serialQuery) /\ Len(hist) = 1 /\ upd.n = 0
                    /\ serial = U32(0, 0) /\ q = U32(65535, 65535))
                  => Own(wire[c]) = <<cacheResetPDU>>

\* C32: a Serial Query whose length field is not 12 ends its session with a
\* decode error and nothing else: the server process keeps running.
C32_ShortSerialQueryRejected ==
    \A c \in Conns :
        (cl[c].pdu.ptype = serialQuery /\ cl[c].pdu.length # 12)
            => /\ ~crashed
               /\ cl[c].exit = "decode"

C34_SerializerPerVersion ==
    (hOut # <<>> /\ hIn.op = "serializer")
        => IF hIn.version \in {version1, version2}
           THEN /\ ~hOut[1].err
                /\ hOut[1].bytes # <<>>
                /\ hOut[1].bytes[1] = hIn.version
                /\ LET other == NewPDUSerializer(version1 + version2 - hIn.version)
                   IN  /\ ~other.err
                       /\ Tail(hOut[1].bytes) = Tail(SerializerWrite(other.ser, hIn.pdu))
           ELSE hOut[1].err

\* A list in which no ROA occurs twice.
DuplicateFree(l) == \A i, j \in DOMAIN l : l[i] = l[j] => i = j

\* C35: for duplicate-free lists new and old, makeDiff's add and del are
\* disjoint, add is part of new, del is part of old, and old without del
\* together with add is new.
C35_DiffAppliesToOld ==
    (dOut # <<>> /\ DuplicateFree(dNew) /\ DuplicateFree(dOld))
        => LET add == Range(dOut[1].addRoa)
               del == Range(dOut[1].delRoa)
           IN  /\ add \cap del = {}
               /\ add \subseteq Range(dNew)
               /\ del \subseteq Range(dOld)
               /\ (Range(dOld) \ del) \cup add = Range(dNew)

\* A step of the refresh loop that applies a successful ingest.
RefreshApplied == upd.pc = "wait" /\ upd'.pc = "send" /\ upd'.ok

\* C36: a successful refresh that brings the ROA set the cache already
\* serves leaves last_update and the served set as they are and replaces
\* the retained diff by the empty diff from S to S+1; last_update changes
\* only in a refresh whose diff has changes.
C36_UnchangedRefresh ==
    [][/\ (RefreshApplied /\ Range(roas') = Range(roas))
            => /\ updates'.lastUpdate = updates.lastUpdate
               /\ diff' = [oldSerial |-> serial, newSerial |-> Inc32(serial),
                           addRoa |-> <<>>, delRoa |-> <<>>, diff |-> FALSE]
       /\ updates'.lastUpdate # updates.lastUpdate
            => (RefreshApplied /\ diff'.diff)]_vars

\* A refresh that changed the set has been followed by one that did not:
\* last_update is older than last_check and the retained diff is empty.
C36_Witness ==
    /\ Len(hist) = 3
    /\ Range(hist[2].roas) # Range(hist[1].roas)
    /\ Range(hist[3].roas) = Range(hist[2].roas)
    /\ upd.pc = "send" /\ upd.ok
    /\ updates.lastUpdate > 0
    /\ updates.lastUpdate < updates.lastCheck
    /\ diff.addRoa = <<>> /\ diff.delRoa = <<>> /\ ~diff.diff
    /\ diff.oldSerial = hist[2].serial

\* The notify loop is about to write to connection c, whose socket is
\* closed: the write fails.
NotifyFails(c) ==
    /\ upd.pc = "notify"
    /\ IF upd.i \in DOMAIN upd.arr THEN upd.arr[upd.i] = c ELSE FALSE
    /\ Closed(c)

\* C37: a session to which the write of a Serial Notify fails is in the end
\* out of the registry with its socket closed, and the notify loop goes on
\* to the next session of its list.
C37_BrokenSessionLeaves ==
    /\ \A c \in ManyConns : NotifyFails(c) ~> (cl[c].pc = "gone" /\ Listed(c) = 0)
    /\ [][\A c \in ManyConns :
            (NotifyFails(c) /\ upd'.i # upd.i /\ upd.i < upd.len)
                => (upd'.pc = "notify" /\ upd'.i = upd.i + 1)]_vars

\* A step in which connection c is accepted.
Accepted(c) == cl[c].pc = "idle" /\ cl'[c].pc # "idle"

C39_RefreshNeverDeadlocks ==
    /\ [](upd.pc = "send" => mutex.writer # "upd")
    /\ (upd.pc = "send") ~> (upd.pc # "send" /\ stat = "log")
    /\ (upd.pc = "wait") ~> (upd.pc = "sleep")

\* Connection c has just delivered a Serial Notify of version 1.
GotSerialNotify(c) ==
    /\ cl'[c].nq = cl[c].nq + 1
    /\ cl'[c].pdu.ptype = serialNotify
    /\ cl'[c].pdu.version = version1

\* C40: a Serial Notify from a router does nothing: the handler goes back
\* to reading with the session open, the cache (ROA set, serial, retained
\* diff, registry) is as before, and no reply is written while it is the
\* last PDU received.
C40_SerialNotifyIgnored ==
    /\ [][\A c \in Conns :
            GotSerialNotify(c)
                => /\ cl'[c].pc = "read"
                   /\ cl'[c].exit = "none"
                   /\ wire'[c] = <<>>
                   /\ UNCHANGED <<roas, serial, session, diff, clientsArr,
                                  clientsLen, updates, crashed>>]_vars
    /\ [](\A c \in Conns :
            (cl[c].nq > 0 /\ cl[c].pdu.ptype = serialNotify /\ cl[c].pdu.version = version1)
                => /\ Own(wire[c]) = <<>>
                   /\ cl[c].exit \in {"none", "eof"})

\* A session has received a Serial Notify, is still registered and reading,
\* and the cache has gone through a refresh since.
C40_Witness ==
    \E c \in Conns :
        /\ cl[c].nq = 1
        /\ cl[c].pdu.ptype = serialNotify
        /\ cl[c].pc = "read"
        /\ Listed(c) = 1
        /\ Len(hist) >= 2
        /\ wire[c] # <<>>

====
